---- MODULE Spec2Model ----
(***************************************************************************)
(* A model of the MPK archive codec of ungelify: the parser (build), the   *)
(* entry content codec (extract / repack) and the repack engine, in the    *)
(* three revisions the repository holds:                                   *)
(*   "new"  src/src/mpk/{archive,entry,bytes}.rs   (repack_entries)        *)
(*   "old"  src/src/vfs/mpk_old.rs                 (replace_entries)       *)
(*   "vfs"  src/src/vfs/mpk.rs                     (replace_entries)       *)
(*                                                                         *)
(* Files are byte arrays.  A file is kept as its length and the map of its *)
(* non-zero bytes (every other byte below the length is 0), which is a     *)
(* canonical form: two files are equal iff their byte arrays are equal.    *)
(* Positions are 0-based byte offsets, as in the source.                   *)
(***************************************************************************)
EXTENDS Integers, Sequences, FiniteSets, TLC

VARIABLES impl, src, mpk_file, paths, arch, phase, writer, idx, new_entries, new_arch, last, out,
          build_err, found, cli_pc, no_save, orig_file, arg, ret

vars == <<impl, src, mpk_file, paths, arch, phase, writer, idx, new_entries, new_arch, last, out,
          build_err, found, cli_pc, no_save, orig_file, arg, ret>>

(***************************************************************************)
(* Bounds of the model.                                                    *)
(***************************************************************************)
MaxEntries == 2
MaxDataLen == 2

(***************************************************************************)
(* Program constants.                                                      *)
(***************************************************************************)
ALIGNMENT == 2048
FIRST_HEADER_OFFSET == 64
HEADER_LENGTH == 256
NAME_LENGTH == 224
HEADER_PADDING == 52
BUFFER_SIZE == 8192
MPK_SIG == <<77, 80, 75, 0>>

Min(a, b) == IF a < b THEN a ELSE b
Max(a, b) == IF a > b THEN a ELSE b

Zeros(n) == [i \in 1..n |-> 0]

(***************************************************************************)
(* Files and positioned writers (File, BufWriter<File>, Seek).             *)
(***************************************************************************)
EmptyFile == [len |-> 0, nz |-> <<>>]

ByteAt(f, p) == IF p \in DOMAIN f.nz THEN f.nz[p] ELSE 0

\* the n bytes of f from position p (the caller has checked p + n <= f.len)
ReadBytes(f, p, n) == [i \in 1..n |-> ByteAt(f, p + i - 1)]

\* how many of the n bytes wanted from position p the file holds
Available(f, p, n) == Min(n, Max(0, f.len - p))

\* Write::write_all of s at position p; a write past the end extends the
\* file, the gap reading as zeros
WriteBytes(f, p, s) ==
    LET span == p .. (p + Len(s) - 1)
        keep == (DOMAIN f.nz) \ span
        set  == {p + i - 1 : i \in {j \in 1..Len(s) : s[j] # 0}}
    IN  [len |-> Max(f.len, p + Len(s)),
         nz  |-> [q \in keep \cup set |-> IF q \in span THEN s[q - p + 1] ELSE f.nz[q]]]

\* n zero bytes written at position p
WriteZeros(f, p, n) ==
    LET span == p .. (p + n - 1)
    IN  [len |-> Max(f.len, p + n),
         nz  |-> [q \in (DOMAIN f.nz) \ span |-> f.nz[q]]]

NewWriter == [file |-> EmptyFile, pos |-> 0]

Write(w, s) == [file |-> WriteBytes(w.file, w.pos, s), pos |-> w.pos + Len(s)]

Seek(w, p) == [w EXCEPT !.pos = p]

(***************************************************************************)
(* Fixed-width little-endian integers (bincode Fixint/LittleEndian,        *)
(* byteorder LE).                                                          *)
(***************************************************************************)
RECURSIVE LE(_, _)
LE(n, w) == IF w = 0 THEN <<>> ELSE <<n % 256>> \o LE(n \div 256, w - 1)

RECURSIVE FromLE(_)
FromLE(s) == IF s = <<>> THEN 0 ELSE s[1] + 256 * FromLE(Tail(s))

(***************************************************************************)
(* zlib (flate2).  The stream is modelled as a stored stream: a header     *)
(* byte, the data, a checksum byte.  Inflate rejects a stream whose header *)
(* or checksum is wrong, so a truncated stream is an error.                *)
(***************************************************************************)
ZLIB_HEADER == 120

RECURSIVE ByteSum(_)
ByteSum(s) == IF s = <<>> THEN 0 ELSE s[1] + ByteSum(Tail(s))

Adler(s) == 1 + (ByteSum(s) % 251)

Deflate(s) == <<ZLIB_HEADER>> \o s \o <<Adler(s)>>

InflateOk(z) ==
    /\ Len(z) >= 2
    /\ z[1] = ZLIB_HEADER
    /\ z[Len(z)] = Adler(SubSeq(z, 2, Len(z) - 1))

Inflate(z) == SubSeq(z, 2, Len(z) - 1)

(***************************************************************************)
(* Entry names: the 224-byte name field and C strings.                     *)
(***************************************************************************)
\* String::from_utf8 / CStr::to_str: every byte is ASCII, or leads a
\* well-formed sequence of 2 to 4 bytes, or continues one that a lead byte at
\* most 3 places before it began
Utf8Valid(s) ==
    LET Cont(i) == i >= 1 /\ i <= Len(s) /\ s[i] \in 128..191
        SeqLen(b) == IF b \in 194..223 THEN 2 ELSE IF b \in 224..239 THEN 3
                     ELSE IF b \in 240..244 THEN 4 ELSE 0
        SecondOk(b, c) == IF b = 224 THEN c >= 160 ELSE IF b = 237 THEN c <= 159
                          ELSE IF b = 240 THEN c >= 144 ELSE IF b = 244 THEN c <= 143
                          ELSE TRUE
        LeadOk(i) == /\ SeqLen(s[i]) > 0
                     /\ \A k \in 1..(SeqLen(s[i]) - 1) : Cont(i + k)
                     /\ SecondOk(s[i], s[i + 1])
        Covered(i) == \E d \in 1..3 : /\ i - d >= 1
                                      /\ SeqLen(s[i - d]) > d
                                      /\ \A k \in 1..(d - 1) : Cont(i - k)
    IN  \A i \in 1..Len(s) :
            \/ s[i] < 128
            \/ LeadOk(i)
            \/ Cont(i) /\ Covered(i)

\* index of the first NUL of s, 0 when it holds none
NulIndex(s) ==
    LET nuls == {i \in 1..Len(s) : s[i] = 0}
    IN  IF nuls = {} THEN 0 ELSE CHOOSE i \in nuls : \A j \in nuls : i <= j

\* bytes.rs: CStr::from_bytes_until_nul(name).unwrap().to_str().unwrap()
entry_name_from_bytes(field) ==
    LET k == NulIndex(field)
        s == SubSeq(field, 1, k - 1)
    IN  IF k = 0 \/ ~Utf8Valid(s) THEN [ok |-> FALSE, name |-> <<>>]
        ELSE [ok |-> TRUE, name |-> s]

\* bytes.rs: name_buf[..entry_name.len()].copy_from_slice(...), which panics
\* when the name is longer than the buffer
copy_name_bytes(name) ==
    IF Len(name) > NAME_LENGTH THEN [ok |-> FALSE, bytes |-> <<>>]
    ELSE [ok |-> TRUE, bytes |-> name \o Zeros(NAME_LENGTH - Len(name))]

\* vfs.rs: read bytes up to a NUL, wherever it is; end of file is an error.
\* The first NUL from p lies at most as many places on as the file holds
\* non-zero bytes from p.
read_cstring(f, p) ==
    LET nonzero == {x \in DOMAIN f.nz : x >= p /\ f.nz[x] # 0}
        nuls    == {q \in p..(p + Cardinality(nonzero)) : q < f.len /\ ByteAt(f, q) = 0}
        first   == CHOOSE q \in nuls : \A r \in nuls : q <= r
    IN  IF nuls = {} THEN [ok |-> FALSE, name |-> <<>>]
        ELSE [ok |-> Utf8Valid(ReadBytes(f, p, first - p)), name |-> ReadBytes(f, p, first - p)]

\* vfs.rs: the bytes of the string, then a NUL
write_cstring(w, name) == Write(Write(w, name), <<0>>)

(***************************************************************************)
(* The in-memory entry and archive.                                        *)
(***************************************************************************)
MagesEntry(cpr, id, name, offset, len_compressed, len_deflated) ==
    [cpr_indicator |-> cpr, id |-> id, name |-> name, offset |-> offset,
     len_compressed |-> len_compressed, len_deflated |-> len_deflated]

\* an insert that appends whether or not the key is present
IndexMapInsert_append(entries, e) == Append(entries, e)

\* an insert that leaves the value of a key already present
IndexMapInsert_keep_first(entries, e) ==
    IF \E k \in 1..Len(entries) : entries[k].id = e.id THEN entries ELSE Append(entries, e)

\* IndexMap::insert: a key already present keeps its place and takes the new value
IndexMapInsert(entries, e) ==
    LET at == {k \in 1..Len(entries) : entries[k].id = e.id}
    IN  IF at = {} THEN Append(entries, e)
        ELSE [entries EXCEPT ![CHOOSE k \in at : TRUE] = e]

\* HashMap::insert
HashMapInsert(m, k, v) == [x \in (DOMAIN m) \cup {k} |-> IF x = k THEN v ELSE m[x]]

NoArchive ==
    [ver_major |-> 0, ver_minor |-> 0, is_old_format |-> FALSE,
     reported_entry_count |-> 0, entries |-> <<>>, names_to_ids |-> <<>>]

(***************************************************************************)
(* Binary struct codec of src/src/mpk/bytes.rs (bincode, fixed layout).    *)
(***************************************************************************)
EncodeMpkHeader(h) ==
    h.signature \o LE(h.ver_minor, 2) \o LE(h.ver_major, 2) \o LE(h.entry_count, 8)
        \o Zeros(48)

DecodeMpkHeader(b) ==
    [signature |-> SubSeq(b, 1, 4), ver_minor |-> FromLE(SubSeq(b, 5, 6)),
     ver_major |-> FromLE(SubSeq(b, 7, 8)), entry_count |-> FromLE(SubSeq(b, 9, 16))]

\* an encoding with the two sizes in each other's place
EncodeMpkEntryV1_swapped_sizes(r) ==
    LE(r.id, 4) \o LE(r.offset, 4) \o LE(r.len_deflated, 4) \o LE(r.len_compressed, 4)
        \o Zeros(16) \o r.name

EncodeMpkEntryV1(r) ==
    LE(r.id, 4) \o LE(r.offset, 4) \o LE(r.len_compressed, 4) \o LE(r.len_deflated, 4)
        \o Zeros(16) \o r.name

DecodeMpkEntryV1(b) ==
    [id |-> FromLE(SubSeq(b, 1, 4)), offset |-> FromLE(SubSeq(b, 5, 8)),
     len_compressed |-> FromLE(SubSeq(b, 9, 12)), len_deflated |-> FromLE(SubSeq(b, 13, 16)),
     name |-> SubSeq(b, 33, 256)]

EncodeMpkEntryV2(r) ==
    LE(r.cpr_indicator, 4) \o LE(r.id, 4) \o LE(r.offset, 8) \o LE(r.len_compressed, 8)
        \o LE(r.len_deflated, 8) \o r.name

DecodeMpkEntryV2(b) ==
    [cpr_indicator |-> FromLE(SubSeq(b, 1, 4)), id |-> FromLE(SubSeq(b, 5, 8)),
     offset |-> FromLE(SubSeq(b, 9, 16)), len_compressed |-> FromLE(SubSeq(b, 17, 24)),
     len_deflated |-> FromLE(SubSeq(b, 25, 32)), name |-> SubSeq(b, 33, 256)]

\* a conversion that takes the uncompressed size from the stored size
MagesEntryFromV1_stored_size(r) ==
    LET n == entry_name_from_bytes(r.name)
    IN  [ok |-> n.ok,
         entry |-> MagesEntry(0, r.id, n.name, r.offset, r.len_compressed, r.len_compressed)]

\* entry.rs: From<MpkEntryV1> for MagesEntry
MagesEntryFromV1(r) ==
    LET n == entry_name_from_bytes(r.name)
    IN  [ok |-> n.ok,
         entry |-> MagesEntry(0, r.id, n.name, r.offset, r.len_compressed, r.len_deflated)]

\* entry.rs: From<MpkEntryV2> for MagesEntry
MagesEntryFromV2(r) ==
    LET n == entry_name_from_bytes(r.name)
    IN  [ok |-> n.ok,
         entry |-> MagesEntry(r.cpr_indicator, r.id, n.name, r.offset,
                              r.len_compressed, r.len_deflated)]

\* bytes.rs: From<&MagesEntry> for MpkEntryV1
MpkEntryV1From(e) ==
    LET n == copy_name_bytes(e.name)
    IN  [ok |-> n.ok,
         rec |-> [id |-> e.id, offset |-> e.offset, len_compressed |-> e.len_compressed,
                  len_deflated |-> e.len_deflated, name |-> n.bytes]]

\* bytes.rs: From<&MagesEntry> for MpkEntryV2
MpkEntryV2From(e) ==
    LET n == copy_name_bytes(e.name)
    IN  [ok |-> n.ok,
         rec |-> [cpr_indicator |-> e.cpr_indicator, id |-> e.id, offset |-> e.offset,
                  len_compressed |-> e.len_compressed, len_deflated |-> e.len_deflated,
                  name |-> n.bytes]]

\* a header that counts the entries kept, not the count the archive reported
MpkHeaderFrom_kept_count(a) ==
    [signature |-> MPK_SIG, ver_minor |-> a.ver_minor, ver_major |-> a.ver_major,
     entry_count |-> Len(a.entries)]

\* bytes.rs: From<&MagesArchive> for MpkHeader
MpkHeaderFrom(a) ==
    [signature |-> MPK_SIG, ver_minor |-> a.ver_minor, ver_major |-> a.ver_major,
     entry_count |-> a.reported_entry_count]

(***************************************************************************)
(* build: src/src/mpk/archive.rs ("new").  The reader is read from the     *)
(* start, struct after struct; every failure is a panic.                   *)
(***************************************************************************)
Failed(e) == [ok |-> FALSE, err |-> e, arch |-> NoArchive]

\* bytes.rs read_struct: the next n bytes, or a panic ("failed to decode")
read_struct(f, p, n) ==
    IF p + n > f.len THEN [ok |-> FALSE, bytes |-> <<>>]
    ELSE [ok |-> TRUE, bytes |-> ReadBytes(f, p, n)]

\* a build that inserts every decoded record, the zero-offset ones too
RECURSIVE build_entries_new_keep_zero(_, _, _, _)
build_entries_new_keep_zero(f, i, count, a) ==
    IF i >= count THEN [ok |-> TRUE, err |-> "none", arch |-> a]
    ELSE LET raw == read_struct(f, FIRST_HEADER_OFFSET + i * HEADER_LENGTH, HEADER_LENGTH)
         IN  IF ~raw.ok THEN Failed("decode")
             ELSE LET conv == IF a.is_old_format
                              THEN MagesEntryFromV1(DecodeMpkEntryV1(raw.bytes))
                              ELSE MagesEntryFromV2(DecodeMpkEntryV2(raw.bytes))
                      e == conv.entry
                  IN  IF ~conv.ok THEN Failed("name")
                      ELSE build_entries_new_keep_zero(f, i + 1, count,
                               [a EXCEPT !.names_to_ids = HashMapInsert(@, e.name, e.id),
                                         !.entries = IndexMapInsert(@, e)])

RECURSIVE build_entries_new(_, _, _, _)
build_entries_new(f, i, count, a) ==
    IF i >= count THEN [ok |-> TRUE, err |-> "none", arch |-> a]
    ELSE LET raw == read_struct(f, FIRST_HEADER_OFFSET + i * HEADER_LENGTH, HEADER_LENGTH)
         IN  IF ~raw.ok THEN Failed("decode")
             ELSE LET conv == IF a.is_old_format
                              THEN MagesEntryFromV1(DecodeMpkEntryV1(raw.bytes))
                              ELSE MagesEntryFromV2(DecodeMpkEntryV2(raw.bytes))
                      e == conv.entry
                  IN  IF ~conv.ok THEN Failed("name")
                      ELSE IF e.offset = 0 THEN build_entries_new(f, i + 1, count, a)
                      ELSE build_entries_new(f, i + 1, count,
                               [a EXCEPT !.names_to_ids = HashMapInsert(@, e.name, e.id),
                                         !.entries = IndexMapInsert(@, e)])

build_new(f) ==
    LET raw == read_struct(f, 0, FIRST_HEADER_OFFSET)
        header == DecodeMpkHeader(raw.bytes)
    IN  IF ~raw.ok THEN Failed("decode")
        ELSE IF header.signature # MPK_SIG THEN Failed("signature")
        ELSE build_entries_new(f, 0, header.entry_count,
                 [ver_major |-> header.ver_major, ver_minor |-> header.ver_minor,
                  is_old_format |-> (header.ver_major = 1),
                  reported_entry_count |-> header.entry_count,
                  entries |-> <<>>, names_to_ids |-> <<>>])

\* archive.rs iter / iter.rs Entries: the values of the entries map, in the
\* map's order
iter(a) == a.entries

(***************************************************************************)
(* build: src/src/vfs/mpk_old.rs ("old") and src/src/vfs/mpk.rs ("vfs").   *)
(* Every read is a read_exact; an error is returned, not a panic.          *)
(***************************************************************************)
\* byteorder read_u16/u32/u64::<LE>
ReadLE(f, p, w) ==
    IF p + w > f.len THEN [ok |-> FALSE, val |-> 0]
    ELSE [ok |-> TRUE, val |-> FromLE(ReadBytes(f, p, w))]

\* MpkVersion::build
MpkVersion_build(major, minor) == major = 1 \/ major = 2

\* vfs/mpk.rs MpkVersion::first_entry_header_offset
first_entry_header_offset(is_old_format) == IF is_old_format THEN 64 ELSE 68

\* the first entry header as each revision locates it
TableOffset(im, is_old_format) ==
    IF im = "vfs" THEN first_entry_header_offset(is_old_format) ELSE FIRST_HEADER_OFFSET

\* mpk_old.rs MagesEntry::read, the reader positioned at p
MagesEntry_read_old(f, p, is_old_format) ==
    LET cw   == IF is_old_format THEN 0 ELSE 4
        w    == IF is_old_format THEN 4 ELSE 8
        cpr  == IF is_old_format THEN [ok |-> TRUE, val |-> 0] ELSE ReadLE(f, p, 4)
        id   == ReadLE(f, p + cw, 4)
        off  == ReadLE(f, p + cw + 4, w)
        lenc == ReadLE(f, p + cw + 4 + w, w)
        lenu == ReadLE(f, p + cw + 4 + 2 * w, w)
        skip == IF is_old_format THEN 16 ELSE 0
        name == read_cstring(f, p + cw + 4 + 3 * w + skip)
    IN  [ok |-> cpr.ok /\ id.ok /\ off.ok /\ lenc.ok /\ lenu.ok /\ name.ok,
         entry |-> MagesEntry(cpr.val, id.val, name.name, off.val, lenc.val, lenu.val)]

\* vfs/mpk.rs MagesEntry::read_at_offset: no compression indicator is read or kept
MagesEntry_read_at_offset(f, p, is_old_format) ==
    LET w    == IF is_old_format THEN 4 ELSE 8
        id   == ReadLE(f, p, 4)
        off  == ReadLE(f, p + 4, w)
        lenc == ReadLE(f, p + 4 + w, w)
        lenu == ReadLE(f, p + 4 + 2 * w, w)
        skip == IF is_old_format THEN 16 ELSE 0
        name == read_cstring(f, p + 4 + 3 * w + skip)
    IN  [ok |-> id.ok /\ off.ok /\ lenc.ok /\ lenu.ok /\ name.ok,
         entry |-> MagesEntry(0, id.val, name.name, off.val, lenc.val, lenu.val)]

RECURSIVE build_entries_vfs(_, _, _, _, _)
build_entries_vfs(im, f, i, count, a) ==
    IF i >= count THEN [ok |-> TRUE, err |-> "none", arch |-> a]
    ELSE LET at == TableOffset(im, a.is_old_format) + i * HEADER_LENGTH
             rd == IF im = "vfs" THEN MagesEntry_read_at_offset(f, at, a.is_old_format)
                   ELSE MagesEntry_read_old(f, at, a.is_old_format)
             e  == rd.entry
         IN  IF ~rd.ok THEN Failed("io")
             ELSE IF e.offset = 0 THEN build_entries_vfs(im, f, i + 1, count, a)
             ELSE build_entries_vfs(im, f, i + 1, count,
                      [a EXCEPT !.entries = IndexMapInsert(@, e),
                                !.names_to_ids = HashMapInsert(@, e.name, e.id)])

build_vfs(im, f) ==
    LET minor == ReadLE(f, 4, 2)
        major == ReadLE(f, 6, 2)
        is_old_format == (major.val = 1)
        count == IF is_old_format THEN ReadLE(f, 8, 4) ELSE ReadLE(f, 8, 8)
    IN  IF f.len < 4 THEN Failed("io")
        ELSE IF ReadBytes(f, 0, 4) # MPK_SIG THEN Failed("signature")
        ELSE IF ~minor.ok \/ ~major.ok THEN Failed("io")
        ELSE IF ~MpkVersion_build(major.val, minor.val) THEN Failed("version")
        ELSE IF ~count.ok THEN Failed("io")
        ELSE build_entries_vfs(im, f, 0, count.val,
                 [ver_major |-> major.val, ver_minor |-> minor.val,
                  is_old_format |-> is_old_format, reported_entry_count |-> count.val,
                  entries |-> <<>>, names_to_ids |-> <<>>])

build(im, f) == IF im = "new" THEN build_new(f) ELSE build_vfs(im, f)

(***************************************************************************)
(* The archives and replacement files the model runs on.  An archive is    *)
(* laid out as the format lays it out: the 0x40-byte header, the table of  *)
(* 256-byte entry records, then each entry's data, every entry after the   *)
(* first starting on a 2048-byte boundary.  The first entry starts where   *)
(* the shape says: at 0x40 (the offset the specification's scenarios use), *)
(* right after the table, or on the first 2048-byte boundary.              *)
(***************************************************************************)
AlignUp(p) == ((p + ALIGNMENT - 1) \div ALIGNMENT) * ALIGNMENT

\* the file with everything from position n on cut off
Truncate(f, n) ==
    [len |-> Min(f.len, n), nz |-> [q \in {x \in DOMAIN f.nz : x < n} |-> f.nz[q]]]

EntryName(i) == <<96 + i>>

UnknownName == <<122>>

PlainData(i, n) == [j \in 1..n |-> 16 * i + j]

ReplacementData(n) == [j \in 1..n |-> 200 + j]

\* the lengths the data of entry i takes, one per base
EntryLen(base, i) == (base + i - 1) % (MaxDataLen + 1)

StoredData(sh, i) ==
    IF i = sh.comp THEN Deflate(PlainData(i, EntryLen(sh.base, i)))
    ELSE PlainData(i, EntryLen(sh.base, i))

RECURSIVE EntryOffset(_, _)
EntryOffset(sh, i) ==
    IF i = 1 THEN sh.first
    ELSE AlignUp(EntryOffset(sh, i - 1) + Len(StoredData(sh, i - 1)))

\* a name that is not UTF-8
BadUtf8Name == <<255>>

\* a name that fills the whole name field and leaves no room for a NUL
FullName == [j \in 1..NAME_LENGTH |-> 120]

\* the name of record i: the last record carries the odd name of the shape
ShapeName(sh, i) ==
    IF i = sh.n /\ sh.name = "bad_utf8" THEN BadUtf8Name
    ELSE IF i = sh.n /\ sh.name = "full" THEN FullName
    ELSE EntryName(i)

\* the ID of record i: with sh.dup the second record repeats the first's ID
ShapeId(sh, i) == IF sh.dup = 1 /\ i = 2 THEN 0 ELSE i - 1

\* the compression indicator of record i: with sh.flag the first record's
\* indicator contradicts its sizes
ShapeCpr(sh, i) ==
    LET c == IF i = sh.comp THEN 1 ELSE 0
    IN  IF sh.flag = 1 /\ i = 1 THEN 1 - c ELSE c

ShapeEntry(sh, i) ==
    MagesEntry(ShapeCpr(sh, i), ShapeId(sh, i), ShapeName(sh, i), EntryOffset(sh, i),
               Len(StoredData(sh, i)), EntryLen(sh.base, i))

RECURSIVE WriteData(_, _, _)
WriteData(f, sh, i) ==
    IF i > sh.n THEN f
    ELSE WriteData(WriteBytes(f, EntryOffset(sh, i), StoredData(sh, i)), sh, i + 1)

RECURSIVE WriteTable(_, _, _)
WriteTable(f, sh, i) ==
    IF i > sh.n THEN f
    ELSE LET e   == ShapeEntry(sh, i)
             rec == IF sh.ver = 1 THEN EncodeMpkEntryV1(MpkEntryV1From(e).rec)
                    ELSE EncodeMpkEntryV2(MpkEntryV2From(e).rec)
         IN  WriteTable(WriteBytes(f, FIRST_HEADER_OFFSET + (i - 1) * HEADER_LENGTH, rec),
                        sh, i + 1)

\* four bytes that are not the signature
BadSignature == <<77, 80, 75, 1>>

\* the archive file of a shape; sh.zero all-zero records follow the real ones
\* and are counted by the header (the "lying entry count" of the format)
MakeArchive(sh) ==
    LET header == EncodeMpkHeader([signature |-> IF sh.sig = "ok" THEN MPK_SIG ELSE BadSignature,
                                   ver_minor |-> 0,
                                   ver_major |-> sh.major, entry_count |-> sh.n + sh.zero])
        data   == WriteData(EmptyFile, sh, 1)
        table  == WriteTable(WriteBytes(data, 0, header), sh, 1)
        whole  == WriteZeros(table, FIRST_HEADER_OFFSET + sh.n * HEADER_LENGTH,
                             sh.zero * HEADER_LENGTH)
    IN  IF sh.cut = 0 THEN whole ELSE Truncate(whole, sh.cut)

TableEnd(n) == FIRST_HEADER_OFFSET + n * HEADER_LENGTH

\* a shape with nothing odd about it
Shape(v, n, z, f, b, c) ==
    [ver |-> v, major |-> v, n |-> n, zero |-> z, first |-> f, base |-> b, comp |-> c,
     dup |-> 0, flag |-> 0, name |-> "plain", sig |-> "ok", cut |-> 0]

\* well-formed archives of both versions, with and without all-zero records
\* counted by the header
PlainShapes ==
    UNION {{Shape(v, n, z, f, b, c) :
               f \in {FIRST_HEADER_OFFSET, TableEnd(n + z), ALIGNMENT}, c \in 0..n} :
           v \in {1, 2}, n \in 1..MaxEntries, z \in {0, 1}, b \in 0..MaxDataLen}

\* archives without a surviving entry: the header counts no record, or one
\* all-zero record
EmptyShapes == {Shape(v, 0, z, ALIGNMENT, 0, 0) : v \in {1, 2}, z \in {0, 1}}

\* entry tables whose second record repeats the first record's ID
DupShapes ==
    {[Shape(v, n, z, ALIGNMENT, b, 0) EXCEPT !.dup = 1] :
        v \in {1, 2}, n \in 2..MaxEntries, z \in {0, 1}, b \in 0..MaxDataLen}

\* V2 tables whose first record's compression indicator contradicts its sizes
FlagShapes ==
    UNION {{[Shape(2, n, 0, ALIGNMENT, b, c) EXCEPT !.flag = 1] : c \in 0..n} :
           n \in 1..MaxEntries, b \in 0..MaxDataLen}

\* tables whose last record's name is not UTF-8 or leaves no NUL in its field
NameShapes ==
    UNION {{[Shape(v, n, z, f, b, 0) EXCEPT !.name = k] :
               f \in {TableEnd(n + z), ALIGNMENT}, k \in {"bad_utf8", "full"}} :
           v \in {1, 2}, n \in 1..MaxEntries, z \in {0, 1}, b \in 1..MaxDataLen}

\* the lengths a damaged archive file is cut to: inside the signature, inside
\* the header, inside the first entry record
Cuts == {2, 32, 128}

\* files with a wrong signature, an unsupported major version, or cut short
HeaderShapes ==
    {[Shape(v, n, 0, ALIGNMENT, b, 0) EXCEPT !.sig = s, !.cut = k] :
        v \in {1, 2}, n \in 1..MaxEntries, b \in 0..MaxDataLen,
        s \in {"ok", "bad"}, k \in Cuts \cup {0}}
    \cup {[Shape(2, n, 0, ALIGNMENT, b, 0) EXCEPT !.major = m] :
            n \in 1..MaxEntries, b \in 0..MaxDataLen, m \in {0, 3}}

Shapes == PlainShapes \cup EmptyShapes \cup DupShapes \cup FlagShapes \cup NameShapes \cup HeaderShapes

\* replacement files: at most one names an entry, at most one names none
PathSets(n) ==
    LET known   == {<<>>} \cup {<<[name |-> EntryName(i), data |-> ReplacementData(l)]>> :
                                    i \in 1..n, l \in {0, MaxDataLen + 1}}
        unknown == {<<>>, <<[name |-> UnknownName, data |-> ReplacementData(1)]>>}
    IN  {k \o u : k \in known, u \in unknown}

(***************************************************************************)
(* Entry content codec and repack of src/src/mpk ("new").                  *)
(***************************************************************************)
WriteZerosAt(w, n) == [file |-> WriteZeros(w.file, w.pos, n), pos |-> w.pos + n]

\* bytes.rs: zero bytes up to the next multiple of 2048 of pos
write_alignment_padding(w, pos) ==
    LET remainder == pos % ALIGNMENT
    IN  IF remainder = 0 THEN w ELSE WriteZerosAt(w, ALIGNMENT - remainder)

\* entry.rs
is_compressed_new(e) == e.len_compressed # e.len_deflated

\* Read::take(n) then io::copy: the bytes the file holds, at most n, no error
\* when they are fewer
TakeCopy(f, p, n) == ReadBytes(f, p, Available(f, p, n))

\* entry.rs MagesEntry::extract, the reader positioned at the entry's offset
\* by do_extraction
MagesEntry_extract_new(e, f) ==
    LET got == TakeCopy(f, e.offset, e.len_compressed)
    IN  IF is_compressed_new(e)
        THEN IF InflateOk(got) THEN [ok |-> TRUE, bytes |-> Inflate(got)]
             ELSE [ok |-> FALSE, bytes |-> <<>>]
        ELSE [ok |-> TRUE, bytes |-> got]

\* entry.rs MagesEntry::repack: bytes_written is what io::copy returns, the
\* number of bytes taken from the reader
MagesEntry_repack(e, data, w, write_padding) ==
    LET w1 == Write(w, IF is_compressed_new(e) THEN Deflate(data) ELSE data)
        bytes_written == Len(data)
    IN  [bytes_written |-> bytes_written,
         data_end |-> w1.pos,
         w |-> IF write_padding THEN write_alignment_padding(w1, bytes_written) ELSE w1]

\* MagesEntry::updated(offset, len_deflated, len_compressed)
MagesEntry_updated(e, offset, len_deflated, len_compressed) ==
    [e EXCEPT !.offset = offset, !.len_deflated = len_deflated,
              !.len_compressed = len_compressed]

\* archive.rs: file name => path, a later path of the same name replacing an
\* earlier one
RECURSIVE build_repack_map(_)
build_repack_map(ps) ==
    IF ps = <<>> THEN <<>>
    ELSE HashMapInsert(build_repack_map(SubSeq(ps, 1, Len(ps) - 1)),
                       ps[Len(ps)].name, ps[Len(ps)].data)

\* archive.rs: repack takes the two arguments of the call, no padding after
\* the data
repack_from_file(w, e, new_offset, data) ==
    LET r == MagesEntry_repack(e, data, w, FALSE)
    IN  [w |-> r.w, data_end |-> r.data_end, bytes_written |-> r.bytes_written,
         entry |-> MagesEntry_updated(e, new_offset, Len(data), r.bytes_written)]

\* archive.rs
\* a copy bounded by the uncompressed size, not the stored one
copy_original_entry_deflated_len(f, w, e, new_offset) ==
    LET got == TakeCopy(f, e.offset, e.len_deflated)
        w1  == Write(w, got)
    IN  [w |-> w1, data_end |-> w1.pos, bytes_written |-> Len(got),
         entry |-> MagesEntry_updated(e, new_offset, e.len_deflated, Len(got))]

\* archive.rs
copy_original_entry(f, w, e, new_offset) ==
    LET got == TakeCopy(f, e.offset, e.len_compressed)
        w1  == Write(w, got)
    IN  [w |-> w1, data_end |-> w1.pos, bytes_written |-> Len(got),
         entry |-> MagesEntry_updated(e, new_offset, e.len_deflated, Len(got))]

\* archive.rs
repack_entry(f, w, rpk_paths, e) ==
    LET w1 == write_alignment_padding(w, w.pos)
        new_entry_offset == w1.pos
    IN  IF e.name \in DOMAIN rpk_paths
        THEN repack_from_file(w1, e, new_entry_offset, rpk_paths[e.name])
        ELSE copy_original_entry(f, w1, e, new_entry_offset)

\* archive.rs
write_archive_header(a, w) == Write(w, EncodeMpkHeader(MpkHeaderFrom(a)))

\* archive.rs: the records one after another from the writer's position; a
\* name that does not fit its field is a panic
RECURSIVE write_entry_headers(_, _, _, _)
write_entry_headers(is_old_format, w, es, i) ==
    IF i > Len(es) THEN [ok |-> TRUE, w |-> w]
    ELSE LET c == IF is_old_format THEN MpkEntryV1From(es[i]) ELSE MpkEntryV2From(es[i])
             b == IF is_old_format THEN EncodeMpkEntryV1(c.rec) ELSE EncodeMpkEntryV2(c.rec)
         IN  IF ~c.ok THEN [ok |-> FALSE, w |-> w]
             ELSE write_entry_headers(is_old_format, Write(w, b), es, i + 1)

(***************************************************************************)
(* Entry content codec and repack of src/src/vfs ("old" and "vfs").        *)
(***************************************************************************)
\* vfs.rs: padding_length zero bytes
write_padding(w, padding_length) == WriteZerosAt(w, padding_length)

\* vfs.rs: n bytes in chunks of BUFFER_SIZE, each read whole (read_exact) and
\* then written; a chunk the reader cannot fill is an error, the chunks before
\* it are written
write_n_from_reader(f, p, w, n) ==
    IF p + n <= f.len THEN [ok |-> TRUE, w |-> Write(w, ReadBytes(f, p, n))]
    ELSE LET whole == (Available(f, p, n) \div BUFFER_SIZE) * BUFFER_SIZE
         IN  [ok |-> FALSE, w |-> Write(w, ReadBytes(f, p, whole))]

\* vfs.rs: everything the reader gives
write_all_from_reader(data, w) == Write(w, data)

\* vfs::copy_n(reader, writer, n): exactly n bytes, or an error
copy_n(f, p, w, n) ==
    IF p + n <= f.len THEN [ok |-> TRUE, w |-> Write(w, ReadBytes(f, p, n)), n |-> n]
    ELSE [ok |-> FALSE, w |-> w, n |-> 0]

\* mpk_old.rs / vfs/mpk.rs: padding computed from the length written
write_entry_alignment_padding(w, len_written) ==
    IF len_written % ALIGNMENT = 0 /\ len_written # 0 THEN w
    ELSE LET num_blocks == len_written \div ALIGNMENT + 1
             len_with_padding == num_blocks * ALIGNMENT
         IN  write_padding(w, len_with_padding - len_written)

\* mpk_old.rs
write_archive_preamble_old(a, w) ==
    Write(w, MPK_SIG \o LE(a.ver_minor, 2) \o LE(a.ver_major, 2)
               \o (IF a.is_old_format THEN LE(a.reported_entry_count, 4)
                   ELSE LE(a.reported_entry_count, 8)))

\* vfs/mpk.rs: the same, then HEADER_PADDING
write_archive_preamble_vfs(a, w) ==
    WriteZerosAt(write_archive_preamble_old(a, w), HEADER_PADDING)

\* mpk_old.rs
is_compressed_old(e) == e.cpr_indicator # 0

\* the first path whose file name is entry_name
find_entry_path_match(entry_name, ps) ==
    LET at == {k \in 1..Len(ps) : ps[k].name = entry_name}
    IN  IF at = {} THEN [found |-> FALSE, data |-> <<>>]
        ELSE [found |-> TRUE, data |-> ps[CHOOSE k \in at : \A j \in at : k <= j].data]

\* mpk_old.rs MagesEntry::write_new; a replacement of a compressed entry is
\* read through a ZlibEncoder by the caller
write_new_old(e, f, m, w) ==
    LET new_offset == w.pos
        direct == write_all_from_reader(IF is_compressed_old(e) THEN Deflate(m.data)
                                        ELSE m.data, w)
        copied == write_n_from_reader(f, e.offset, w, e.len_compressed)
        w1 == IF m.found THEN direct ELSE copied.w
        bytes_written == w1.pos - new_offset
    IN  [ok |-> m.found \/ copied.ok, w |-> w1, data_end |-> w1.pos,
         bytes_written |-> bytes_written,
         entry |-> [e EXCEPT !.offset = new_offset,
                             !.len_deflated = IF m.found THEN Len(m.data) ELSE e.len_deflated,
                             !.len_compressed = bytes_written]]

\* vfs/mpk.rs MagesEntry::write_new
write_new_vfs(e, f, m, w) ==
    LET new_offset == w.pos
        copied == copy_n(f, e.offset, w, e.len_compressed)
        w1 == IF m.found THEN Write(w, m.data) ELSE copied.w
        len_written == IF m.found THEN Len(m.data) ELSE copied.n
    IN  [ok |-> m.found \/ copied.ok, w |-> w1, data_end |-> w1.pos,
         bytes_written |-> len_written,
         entry |-> [e EXCEPT !.offset = new_offset, !.len_deflated = len_written,
                             !.len_compressed = len_written]]

\* mpk_old.rs MagesEntry::write_header; the 16 reserved bytes of a V1 record
\* are skipped, not written
write_header_old(e, w, is_old_format) ==
    LET header_offset == w.pos
        w1 == IF is_old_format
              THEN Seek(Write(w, LE(e.id, 4) \o LE(e.offset, 4) \o LE(e.len_compressed, 4)
                                   \o LE(e.len_deflated, 4)), w.pos + 32)
              ELSE Write(w, LE(e.cpr_indicator, 4) \o LE(e.id, 4) \o LE(e.offset, 8)
                              \o LE(e.len_compressed, 8) \o LE(e.len_deflated, 8))
        w2 == write_cstring(w1, e.name)
        bytes_written == w2.pos - header_offset
    IN  IF bytes_written > HEADER_LENGTH THEN [ok |-> FALSE, w |-> w2]
        ELSE [ok |-> TRUE, w |-> write_padding(w2, HEADER_LENGTH - bytes_written)]

\* vfs/mpk.rs MagesEntry::write_header: no compression indicator
write_header_vfs(e, w, is_old_format) ==
    LET header_offset == w.pos
        w1 == IF is_old_format
              THEN Seek(Write(w, LE(e.id, 4) \o LE(e.offset, 4) \o LE(e.len_compressed, 4)
                                   \o LE(e.len_deflated, 4)), w.pos + 32)
              ELSE Write(w, LE(e.id, 4) \o LE(e.offset, 8)
                              \o LE(e.len_compressed, 8) \o LE(e.len_deflated, 8))
        w2 == write_cstring(w1, e.name)
        bytes_written == w2.pos - header_offset
    IN  IF bytes_written > HEADER_LENGTH THEN [ok |-> FALSE, w |-> w2]
        ELSE [ok |-> TRUE, w |-> write_padding(w2, HEADER_LENGTH - bytes_written)]

RECURSIVE write_headers_vfs(_, _, _, _, _)
write_headers_vfs(im, is_old_format, w, es, i) ==
    IF i > Len(es) THEN [ok |-> TRUE, w |-> w]
    ELSE LET r == IF im = "vfs" THEN write_header_vfs(es[i], w, is_old_format)
                  ELSE write_header_old(es[i], w, is_old_format)
         IN  IF ~r.ok THEN r ELSE write_headers_vfs(im, is_old_format, r.w, es, i + 1)

\* mpk_old.rs MagesEntry::extract: a compressed entry is read for
\* len_compressed bytes into a ZlibDecoder, any other for len bytes
MagesEntry_extract_old(e, f) ==
    LET n == IF is_compressed_old(e) THEN e.len_compressed ELSE e.len_deflated
    IN  IF e.offset + n > f.len THEN [ok |-> FALSE, bytes |-> <<>>]
        ELSE LET got == ReadBytes(f, e.offset, n)
             IN  IF ~is_compressed_old(e) THEN [ok |-> TRUE, bytes |-> got]
                 ELSE IF InflateOk(got) THEN [ok |-> TRUE, bytes |-> Inflate(got)]
                 ELSE [ok |-> FALSE, bytes |-> <<>>]

\* vfs/mpk.rs MagesEntry::extract
MagesEntry_extract_vfs(e, f) ==
    LET r == copy_n(f, e.offset, NewWriter, e.len_deflated)
    IN  [ok |-> r.ok, bytes |-> ReadBytes(r.w.file, 0, r.w.file.len)]

(***************************************************************************)
(* The state machine.                                                      *)
(*   impl         which revision runs                                      *)
(*   src          the bytes of the archive the reader is opened on         *)
(*   mpk_file     the file at the archive's path                           *)
(*   paths        the replacement files handed to repack: name and content *)
(*   arch         the Archive build returned                               *)
(*   phase        closed -> open -> entries -> done, or extracted, or one  *)
(*                of the failures                                          *)
(*   writer       the sink of repack and the position in it                *)
(*   idx          the next entry repack handles                            *)
(*   new_entries  the entries repack has written                           *)
(*   new_arch     the Archive repack returned                              *)
(*   last         the last entry write: where its data starts and ends in  *)
(*                the sink, and the count the write returned               *)
(*   out          the last extraction: entry, outcome, bytes written       *)
(*   build_err    why build failed, "none" when it has not                 *)
(*   found        the last lookup by name: the name and what it returned   *)
(*   cli_pc       where the Repack command of cli.rs stands, "none" when   *)
(*                the library is used without it                           *)
(*   no_save      the --no-save flag of the Repack command                 *)
(*   orig_file    the file at the archive's path + ".orig": <<>> when      *)
(*                there is none, else <<its bytes>>                        *)
(*   arg, ret     the argument and the result of a call of one of the      *)
(*                path and padding functions                               *)
(***************************************************************************)
Impls == {"new", "old", "vfs"}

NoWrite == [entry |-> 0, replaced |-> FALSE, start |-> 0, data_end |-> 0, bytes_written |-> 0]

NoExtract == [entry |-> 0, cut |-> 0, ok |-> FALSE, bytes |-> <<>>]

NoEntry == MagesEntry(0, 0, <<>>, 0, 0, 0)

NoLookup == [name |-> <<>>, some |-> FALSE, entry |-> NoEntry]

\* the names looked up: each entry name as the table spells it and in upper
\* case, and a name no entry has
UpperName(i) == <<64 + i>>

LookupNames == {EntryName(i) : i \in 1..MaxEntries} \cup {UpperName(i) : i \in 1..MaxEntries}
                   \cup {UnknownName}

NoPath == [parent |-> <<>>, file |-> <<>>]

NoCall == [kind |-> "none", path |-> NoPath, n |-> 0]

NoReturn == [fn |-> "none", ok |-> FALSE, path |-> NoPath, w |-> NewWriter]

\* nothing built, written, extracted or looked up yet
AtRest ==
    /\ arch = NoArchive
    /\ phase = "closed"
    /\ writer = NewWriter
    /\ idx = 0
    /\ new_entries = <<>>
    /\ new_arch = NoArchive
    /\ last = NoWrite
    /\ out = NoExtract
    /\ build_err = "none"
    /\ found = NoLookup

Library ==
    /\ impl \in Impls
    /\ \E sh \in Shapes :
          /\ src = MakeArchive(sh)
          /\ paths \in PathSets(sh.n)
    /\ mpk_file = src
    /\ AtRest

Init ==
    /\ Library
    /\ cli_pc = "none"
    /\ no_save = FALSE
    /\ orig_file = <<>>
    /\ arg = NoCall
    /\ ret = NoReturn

\* MagesArchive::build on the archive file
Build ==
    /\ phase = "closed"
    /\ LET b == build(impl, src)
       IN  /\ arch' = b.arch
           /\ phase' = IF b.ok THEN "open" ELSE "build_failed"
           /\ build_err' = b.err
    /\ UNCHANGED <<impl, src, mpk_file, paths, writer, idx, new_entries, new_arch, last, out, found,
                   cli_pc, no_save, orig_file, arg, ret>>

MagesEntry_extract(im, e, f) ==
    IF im = "new" THEN MagesEntry_extract_new(e, f)
    ELSE IF im = "old" THEN MagesEntry_extract_old(e, f)
    ELSE MagesEntry_extract_vfs(e, f)

\* extraction of entry i from the archive file, whole (cut = 0) or cut short
\* by `cut` bytes of the entry's stored data
extract_entry(i, cut) ==
    /\ phase = "open"
    /\ LET e == arch.entries[i]
           f == IF cut = 0 THEN src ELSE Truncate(src, e.offset + e.len_compressed - cut)
           r == MagesEntry_extract(impl, e, f)
       IN  /\ cut <= e.len_compressed
           /\ out' = [entry |-> i, cut |-> cut, ok |-> r.ok, bytes |-> r.bytes]
           /\ phase' = IF r.ok THEN "extracted" ELSE "extract_failed"
    /\ UNCHANGED <<impl, src, mpk_file, paths, arch, writer, idx, new_entries, new_arch, last,
                   build_err, found,
                   cli_pc, no_save, orig_file, arg, ret>>

\* entries.get(&id): the entry under that ID
get_entry_by_id(a, id) ==
    LET at == {k \in 1..Len(a.entries) : a.entries[k].id = id}
    IN  IF at = {} THEN [some |-> FALSE, entry |-> NoEntry]
        ELSE [some |-> TRUE, entry |-> a.entries[CHOOSE k \in at : TRUE]]

\* archive.rs / mpk_old.rs get_entry_by_name: names_to_ids.get(name), then the
\* entry under the ID found
get_entry_by_name(a, name) ==
    IF name \in DOMAIN a.names_to_ids THEN get_entry_by_id(a, a.names_to_ids[name])
    ELSE [some |-> FALSE, entry |-> NoEntry]

\* a lookup by name on the archive build returned
lookup_by_name(name) ==
    /\ phase = "open"
    /\ LET r == get_entry_by_name(arch, name)
       IN  found' = [name |-> name, some |-> r.some, entry |-> r.entry]
    /\ phase' = "looked_up"
    /\ UNCHANGED <<impl, src, mpk_file, paths, arch, writer, idx, new_entries, new_arch, last, out,
                   build_err,
                   cli_pc, no_save, orig_file, arg, ret>>

\* archive.rs repack_entries, up to the seek to the first entry's offset
repack_entries_begin ==
    /\ impl = "new"
    /\ phase = "open"
    /\ LET w == write_archive_header(arch, NewWriter)
       IN  IF arch.entries = <<>>
           THEN /\ writer' = w
                /\ phase' = "repack_failed"
                /\ idx' = idx
           ELSE /\ writer' = Seek(w, arch.entries[1].offset)
                /\ phase' = "entries"
                /\ idx' = 1
    /\ UNCHANGED <<impl, src, mpk_file, paths, arch, new_entries, new_arch, last, out,
                   build_err, found,
                   cli_pc, no_save, orig_file, arg, ret>>

\* archive.rs repack_entries: one turn of the map over the entries
repack_entries_entry ==
    /\ impl = "new"
    /\ phase = "entries"
    /\ idx <= Len(arch.entries)
    /\ LET e == arch.entries[idx]
           rpk_paths == build_repack_map(paths)
           r == repack_entry(src, writer, rpk_paths, e)
       IN  /\ writer' = r.w
           /\ new_entries' = IndexMapInsert(new_entries, [r.entry EXCEPT !.id = e.id])
           /\ last' = [entry |-> idx, replaced |-> e.name \in DOMAIN rpk_paths,
                       start |-> r.entry.offset, data_end |-> r.data_end,
                       bytes_written |-> r.bytes_written]
    /\ idx' = idx + 1
    /\ UNCHANGED <<impl, src, mpk_file, paths, arch, phase, new_arch, out,
                   build_err, found,
                   cli_pc, no_save, orig_file, arg, ret>>

\* archive.rs repack_entries: the entry headers, the flush, the new archive
repack_entries_finish ==
    /\ impl = "new"
    /\ phase = "entries"
    /\ idx > Len(arch.entries)
    /\ LET r == write_entry_headers(arch.is_old_format, Seek(writer, FIRST_HEADER_OFFSET),
                                    new_entries, 1)
       IN  /\ writer' = r.w
           /\ phase' = IF r.ok THEN "done" ELSE "repack_failed"
           /\ new_arch' = IF r.ok THEN [arch EXCEPT !.entries = new_entries] ELSE new_arch
    /\ UNCHANGED <<impl, src, mpk_file, paths, arch, idx, new_entries, last, out,
                   build_err, found,
                   cli_pc, no_save, orig_file, arg, ret>>

write_archive_preamble(im, a, w) ==
    IF im = "vfs" THEN write_archive_preamble_vfs(a, w) ELSE write_archive_preamble_old(a, w)

\* a repack that writes the first entry's data right behind the preamble
replace_entries_begin_no_padding ==
    /\ impl \in {"old", "vfs"}
    /\ phase = "open"
    /\ LET w == write_archive_preamble(impl, arch, NewWriter)
       IN  IF \/ paths = <<>>
              \/ \E k \in 1..Len(paths) : paths[k].name \notin DOMAIN arch.names_to_ids
           THEN /\ writer' = writer
                /\ phase' = "repack_failed"
                /\ idx' = idx
           ELSE IF arch.entries = <<>> \/ arch.entries[1].offset < w.pos
           THEN /\ writer' = w
                /\ phase' = "repack_failed"
                /\ idx' = idx
           ELSE /\ writer' = w
                /\ phase' = "entries"
                /\ idx' = 1
    /\ UNCHANGED <<impl, src, mpk_file, paths, arch, new_entries, new_arch, last, out,
                   build_err, found,
                   cli_pc, no_save, orig_file, arg, ret>>

\* mpk_old.rs / vfs/mpk.rs replace_entries, up to the padding before the
\* first entry's data
replace_entries_begin ==
    /\ impl \in {"old", "vfs"}
    /\ phase = "open"
    /\ LET w == write_archive_preamble(impl, arch, NewWriter)
       IN  IF \/ paths = <<>>
              \/ \E k \in 1..Len(paths) : paths[k].name \notin DOMAIN arch.names_to_ids
           THEN /\ writer' = writer
                /\ phase' = "repack_failed"
                /\ idx' = idx
           ELSE IF arch.entries = <<>> \/ arch.entries[1].offset < w.pos
           THEN /\ writer' = w
                /\ phase' = "repack_failed"
                /\ idx' = idx
           ELSE /\ writer' = write_padding(w, arch.entries[1].offset - w.pos)
                /\ phase' = "entries"
                /\ idx' = 1
    /\ UNCHANGED <<impl, src, mpk_file, paths, arch, new_entries, new_arch, last, out,
                   build_err, found,
                   cli_pc, no_save, orig_file, arg, ret>>

write_new(im, e, f, m, w) ==
    IF im = "vfs" THEN write_new_vfs(e, f, m, w) ELSE write_new_old(e, f, m, w)

\* replace_entries: one turn of the loop over the entries
replace_entries_entry ==
    /\ impl \in {"old", "vfs"}
    /\ phase = "entries"
    /\ idx <= Len(arch.entries)
    /\ LET e == arch.entries[idx]
           m == find_entry_path_match(e.name, paths)
           r == write_new(impl, e, src, m, writer)
       IN  /\ writer' = IF r.ok /\ idx < Len(arch.entries)
                        THEN write_entry_alignment_padding(r.w, r.entry.len_compressed)
                        ELSE r.w
           /\ new_entries' = IF r.ok THEN IndexMapInsert(new_entries, r.entry) ELSE new_entries
           /\ last' = [entry |-> idx, replaced |-> m.found, start |-> r.entry.offset,
                       data_end |-> r.data_end, bytes_written |-> r.bytes_written]
           /\ phase' = IF r.ok THEN phase ELSE "repack_failed"
    /\ idx' = idx + 1
    /\ UNCHANGED <<impl, src, mpk_file, paths, arch, new_arch, out,
                   build_err, found,
                   cli_pc, no_save, orig_file, arg, ret>>

\* replace_entries: the entry headers, then the temporary file copied over the
\* archive file
replace_entries_finish ==
    /\ impl \in {"old", "vfs"}
    /\ phase = "entries"
    /\ idx > Len(arch.entries)
    /\ LET r == write_headers_vfs(impl, arch.is_old_format,
                                  Seek(writer, TableOffset(impl, arch.is_old_format)),
                                  new_entries, 1)
       IN  /\ writer' = r.w
           /\ phase' = IF r.ok THEN "done" ELSE "repack_failed"
           /\ new_arch' = IF r.ok THEN [arch EXCEPT !.entries = new_entries] ELSE new_arch
           /\ mpk_file' = IF r.ok THEN r.w.file ELSE mpk_file
    /\ UNCHANGED <<impl, src, paths, arch, idx, new_entries, last, out,
                   build_err, found,
                   cli_pc, no_save, orig_file, arg, ret>>

Next ==
    \/ Build
    \/ \E i \in 1..Len(arch.entries), cut \in 0..1 : extract_entry(i, cut)
    \/ \E name \in LookupNames : lookup_by_name(name)
    \/ repack_entries_begin
    \/ repack_entries_entry
    \/ repack_entries_finish
    \/ replace_entries_begin
    \/ replace_entries_entry
    \/ replace_entries_finish

Spec == Init /\ [][Next]_vars

(***************************************************************************)
(* The extraction directory (src/src/vfs.rs archive_dir_name, src/src/     *)
(* lib.rs archive_output_dir).  A path is the components of its parent     *)
(* directory and its last component; a name is a string of bytes.          *)
(***************************************************************************)
MaxNameLen == 4

ArchiveNameChars == {97, 98, 46}

\* Path::components drops a last component "."; ".." stays
ArchiveNames == UNION {[1..k -> ArchiveNameChars] : k \in 1..MaxNameLen} \ {<<46>>}

ArchivePaths == {[parent |-> d, file |-> nm] : d \in {<<>>, <<(<<100>>)>>}, nm \in ArchiveNames}

\* Path::file_name: None when the path ends in ".."
file_name(p) ==
    IF p.file = <<46, 46>> THEN [some |-> FALSE, name |-> <<>>] ELSE [some |-> TRUE, name |-> p.file]

\* a split at the last dot wherever it is
rsplit_file_at_dot_any(file) ==
    LET dots == {i \in 1..Len(file) : file[i] = 46}
        last_dot == CHOOSE i \in dots : \A j \in dots : j <= i
        none == [some |-> FALSE, name |-> <<>>]
    IN  IF dots = {} THEN [before |-> none, after |-> [some |-> TRUE, name |-> file]]
        ELSE [before |-> [some |-> TRUE, name |-> SubSeq(file, 1, last_dot - 1)],
              after  |-> [some |-> TRUE, name |-> SubSeq(file, last_dot + 1, Len(file))]]

\* std rsplit_file_at_dot: ".." is left whole; the name is split at its last
\* dot; a name whose only dot is its first byte is left whole
rsplit_file_at_dot(file) ==
    LET dots == {i \in 1..Len(file) : file[i] = 46}
        last_dot == CHOOSE i \in dots : \A j \in dots : j <= i
        none == [some |-> FALSE, name |-> <<>>]
    IN  IF file = <<46, 46>> THEN [before |-> [some |-> TRUE, name |-> file], after |-> none]
        ELSE IF dots = {} THEN [before |-> none, after |-> [some |-> TRUE, name |-> file]]
        ELSE IF last_dot = 1 THEN [before |-> [some |-> TRUE, name |-> file], after |-> none]
        ELSE [before |-> [some |-> TRUE, name |-> SubSeq(file, 1, last_dot - 1)],
              after  |-> [some |-> TRUE, name |-> SubSeq(file, last_dot + 1, Len(file))]]

\* Path::file_stem: file_name, split, before.or(after)
file_stem(p) ==
    LET s == rsplit_file_at_dot(file_name(p).name)
    IN  IF ~file_name(p).some THEN [some |-> FALSE, name |-> <<>>]
        ELSE IF s.before.some THEN s.before ELSE s.after

\* Path::join of a directory and a relative name
join(dir, name) == [parent |-> dir, file |-> name]

\* Path equality compares components; a "." that is not the first component
\* is none
Components(p) == p.parent \o (IF p.file = <<46>> /\ p.parent # <<>> THEN <<>> ELSE <<p.file>>)

DotD == <<46, 100>>

\* vfs.rs archive_dir_name
archive_dir_name(archive_path) ==
    LET parent_dir == archive_path.parent
        archive_stem == file_stem(archive_path)
        archive_dir == join(parent_dir, archive_stem.name)
    IN  IF ~archive_stem.some THEN [ok |-> FALSE, path |-> NoPath]
        ELSE IF Components(archive_path) = Components(archive_dir)
        THEN [ok |-> TRUE, path |-> join(parent_dir, file_name(archive_path).name \o DotD)]
        ELSE [ok |-> TRUE, path |-> archive_dir]

\* lib.rs archive_output_dir; the unwraps panic on a path without file name
archive_output_dir(path) ==
    LET name == file_name(path)
        stem == file_stem(path)
    IN  IF ~name.some \/ ~stem.some THEN [ok |-> FALSE, path |-> NoPath]
        ELSE [ok |-> TRUE,
              path |-> join(<<>>, IF stem.name = name.name THEN stem.name \o DotD ELSE stem.name)]

(***************************************************************************)
(* The calls of the path functions and of the padding routines: the        *)
(* archive path is any of ArchivePaths, the position or length any of      *)
(* 0..MaxLength.                                                           *)
(***************************************************************************)
MaxLength == 4096

InitFn ==
    /\ impl = "new"
    /\ src = EmptyFile
    /\ mpk_file = EmptyFile
    /\ paths = <<>>
    /\ AtRest
    /\ cli_pc = "none"
    /\ no_save = FALSE
    /\ orig_file = <<>>
    /\ arg \in {[kind |-> "path", path |-> p, n |-> 0] : p \in ArchivePaths}
              \cup {[kind |-> "n", path |-> NoPath, n |-> k] : k \in 0..MaxLength}
    /\ ret = NoReturn

\* a call of vfs.rs archive_dir_name
call_archive_dir_name ==
    /\ arg.kind = "path"
    /\ ret.fn = "none"
    /\ LET r == archive_dir_name(arg.path)
       IN  ret' = [fn |-> "archive_dir_name", ok |-> r.ok, path |-> r.path, w |-> NewWriter]
    /\ UNCHANGED <<impl, src, mpk_file, paths, arch, phase, writer, idx, new_entries, new_arch,
                   last, out, build_err, found, cli_pc, no_save, orig_file, arg>>

\* cli.rs Cmd::Extract without --output-dir: parent_dir.join(archive_output_dir(path))
call_archive_output_dir ==
    /\ arg.kind = "path"
    /\ ret.fn = "none"
    /\ LET r == archive_output_dir(arg.path)
       IN  ret' = [fn |-> "archive_output_dir", ok |-> r.ok,
                   path |-> IF r.ok THEN join(arg.path.parent, r.path.file) ELSE NoPath,
                   w |-> NewWriter]
    /\ UNCHANGED <<impl, src, mpk_file, paths, arch, phase, writer, idx, new_entries, new_arch,
                   last, out, build_err, found, cli_pc, no_save, orig_file, arg>>

\* bytes.rs write_alignment_padding(writer, pos), the writer standing at pos
call_write_alignment_padding ==
    /\ arg.kind = "n"
    /\ ret.fn = "none"
    /\ ret' = [fn |-> "write_alignment_padding", ok |-> TRUE, path |-> NoPath,
               w |-> write_alignment_padding(Seek(NewWriter, arg.n), arg.n)]
    /\ UNCHANGED <<impl, src, mpk_file, paths, arch, phase, writer, idx, new_entries, new_arch,
                   last, out, build_err, found, cli_pc, no_save, orig_file, arg>>

\* mpk_old.rs / vfs/mpk.rs write_entry_alignment_padding(writer, len_written),
\* the writer standing after len_written bytes
call_write_entry_alignment_padding ==
    /\ arg.kind = "n"
    /\ ret.fn = "none"
    /\ ret' = [fn |-> "write_entry_alignment_padding", ok |-> TRUE, path |-> NoPath,
               w |-> write_entry_alignment_padding(Seek(NewWriter, arg.n), arg.n)]
    /\ UNCHANGED <<impl, src, mpk_file, paths, arch, phase, writer, idx, new_entries, new_arch,
                   last, out, build_err, found, cli_pc, no_save, orig_file, arg>>

NextFn ==
    \/ call_archive_dir_name
    \/ call_archive_output_dir
    \/ call_write_alignment_padding
    \/ call_write_entry_alignment_padding

SpecFn == InitFn /\ [][NextFn]_vars

(***************************************************************************)
(* The Repack command of src/src/cli.rs: the archive is renamed to its     *)
(* path + ".orig", built from there, and repacked into a new file at its   *)
(* path.  A panic of build or of repack_entries ends the command where it  *)
(* stands.                                                                 *)
(***************************************************************************)
InitCli ==
    /\ Library
    /\ impl = "new"
    /\ cli_pc = "start"
    /\ no_save \in BOOLEAN
    /\ orig_file = <<>>
    /\ arg = NoCall
    /\ ret = NoReturn

\* fs::rename(&archive_path, &orig_path)
cli_rename ==
    /\ cli_pc = "start"
    /\ orig_file' = <<mpk_file>>
    /\ cli_pc' = "renamed"
    /\ UNCHANGED <<impl, src, mpk_file, paths, arch, phase, writer, idx, new_entries, new_arch,
                   last, out, build_err, found, no_save, arg, ret>>

\* MagesArchive::build on the reader opened on orig_path
cli_build ==
    /\ cli_pc = "renamed"
    /\ orig_file = <<src>>
    /\ Build

\* File::create(&archive_path)
cli_create ==
    /\ cli_pc = "renamed"
    /\ phase = "open"
    /\ cli_pc' = "created"
    /\ UNCHANGED <<impl, src, mpk_file, paths, arch, phase, writer, idx, new_entries, new_arch,
                   last, out, build_err, found, no_save, orig_file, arg, ret>>

\* mpk.repack_entries(&mut orig_reader, &mut rpk_writer, &rpk_files)
cli_repack_entries ==
    /\ cli_pc = "created"
    /\ \/ repack_entries_begin
       \/ repack_entries_entry
       \/ repack_entries_finish

\* a removal of the ".orig" file that does not wait for repack_entries
cli_finish_early ==
    /\ cli_pc = "created"
    /\ orig_file' = IF no_save THEN <<>> ELSE orig_file
    /\ cli_pc' = "finished"
    /\ UNCHANGED <<impl, src, mpk_file, paths, arch, phase, writer, idx, new_entries, new_arch,
                   last, out, build_err, found, no_save, arg, ret>>

\* if no_save { fs::remove_file(&orig_path) }, once repack_entries returned
cli_finish ==
    /\ cli_pc = "created"
    /\ phase = "done"
    /\ orig_file' = IF no_save THEN <<>> ELSE orig_file
    /\ cli_pc' = "finished"
    /\ UNCHANGED <<impl, src, mpk_file, paths, arch, phase, writer, idx, new_entries, new_arch,
                   last, out, build_err, found, no_save, arg, ret>>

NextCli ==
    \/ cli_rename
    \/ cli_build
    \/ cli_create
    \/ cli_repack_entries
    \/ cli_finish

SpecCli == InitCli /\ [][NextCli]_vars

(***************************************************************************)
(* Vocabulary of the properties.                                           *)
(***************************************************************************)
Sink == writer.file

\* a replacement file carries the entry's name
IsReplaced(e) == \E k \in 1..Len(paths) : paths[k].name = e.name

\* the content of the replacement file of entry e
ReplacementOf(e) == paths[CHOOSE k \in 1..Len(paths) : paths[k].name = e.name].data

\* some replacement file carries the name of no entry
HasUnknownTarget ==
    \E k \in 1..Len(paths) : \A i \in 1..Len(arch.entries) : arch.entries[i].name # paths[k].name

RepackStarted == phase \in {"entries", "done", "repack_failed"}

\* files f and g agree on every byte below position n
SameBelow(f, g, n) ==
    /\ f.len >= n
    /\ g.len >= n
    /\ \A q \in {x \in (DOMAIN f.nz) \cup (DOMAIN g.nz) : x < n} : ByteAt(f, q) = ByteAt(g, q)

\* where the data of the archive's last entry ends
DataEnd(a) ==
    IF a.entries = <<>> THEN 0
    ELSE a.entries[Len(a.entries)].offset + a.entries[Len(a.entries)].len_compressed

\* stored size and uncompressed size agree and no compression indicator is
\* set: the entry is uncompressed whichever way a revision decides it
PlainEntry(e) == e.len_compressed = e.len_deflated /\ e.cpr_indicator = 0

\* the entry is uncompressed as the running revision decides it
TreatedAsUncompressed(e) ==
    IF impl = "new" THEN ~is_compressed_new(e)
    ELSE IF impl = "old" THEN ~is_compressed_old(e)
    ELSE TRUE

(***************************************************************************)
(* C1: when a replacement path's base name is the name of no entry, repack *)
(* fails, and at the failure no byte has been written to the sink.         *)
(***************************************************************************)
C1_UnknownTargetFailsUnwritten ==
    (RepackStarted /\ HasUnknownTarget) => (phase = "repack_failed" /\ Sink = EmptyFile)

(***************************************************************************)
(* C2: repack with an empty replacement list succeeds and its output       *)
(* equals the original archive on every byte up to the end of the final    *)
(* entry's data.                                                           *)
(***************************************************************************)
C2_EmptyRepackIdentical ==
    (paths = <<>> /\ phase \in {"done", "repack_failed"})
        => (phase = "done" /\ SameBelow(Sink, src, DataEnd(arch)))

(***************************************************************************)
(* C3: after repack, every entry no replacement file names keeps its       *)
(* size_stored, and the size_stored bytes at its new offset in the output  *)
(* are the size_stored bytes at its original offset in the source.         *)
(* As stated it fails where the rewritten entry table reaches into the     *)
(* entry's data; it holds of every entry whose data in the output starts   *)
(* at or after the end of the entry table repack writes.                   *)
(***************************************************************************)
CopiedUnchanged(i) ==
    /\ new_entries[i].len_compressed = arch.entries[i].len_compressed
    /\ new_entries[i].offset + arch.entries[i].len_compressed <= Sink.len
    /\ ReadBytes(Sink, new_entries[i].offset, arch.entries[i].len_compressed)
          = ReadBytes(src, arch.entries[i].offset, arch.entries[i].len_compressed)

\* where the entry table repack writes ends
WrittenTableEnd == TableOffset(impl, arch.is_old_format) + HEADER_LENGTH * Len(arch.entries)

C4_UncompressedSizeKept ==
    phase = "done" =>
        \A i \in 1..Len(arch.entries) :
            new_entries[i].len_deflated =
                IF IsReplaced(arch.entries[i]) THEN Len(ReplacementOf(arch.entries[i]))
                ELSE arch.entries[i].len_deflated

(***************************************************************************)
(* C5: in a repacked archive of two or more entries, the offset of every   *)
(* entry but the first is a multiple of 2048.                              *)
(***************************************************************************)
C5_OffsetsAligned ==
    phase = "done" =>
        \A i \in 2..Len(new_entries) : new_entries[i].offset % ALIGNMENT = 0

(***************************************************************************)
(* C6: replacing the first entry, an uncompressed one, leaves its offset   *)
(* as it was, and when repack has finished the output holds the            *)
(* replacement file's content at that offset.                              *)
(***************************************************************************)
C6_FirstEntryReplacedInPlace ==
    (phase = "done" /\ IsReplaced(arch.entries[1]) /\ PlainEntry(arch.entries[1])) =>
        /\ new_entries[1].offset = arch.entries[1].offset
        /\ ReadBytes(Sink, arch.entries[1].offset, Len(ReplacementOf(arch.entries[1])))
              = ReplacementOf(arch.entries[1])

(***************************************************************************)
(* C7: extracting an uncompressed entry from the whole archive writes      *)
(* exactly the size_stored bytes at the entry's offset.                    *)
(***************************************************************************)
C7_ExtractWritesStoredBytes ==
    (phase = "extracted" /\ out.cut = 0 /\ TreatedAsUncompressed(arch.entries[out.entry])) =>
        out.bytes = ReadBytes(src, arch.entries[out.entry].offset,
                              arch.entries[out.entry].len_compressed)

(***************************************************************************)
(* C8: extraction does not succeed when the source holds fewer than        *)
(* size_stored bytes from the entry's offset.                              *)
(***************************************************************************)
C8_ShortSourceFails ==
    phase = "extracted" => out.cut = 0

(***************************************************************************)
(* C9: the count the entry write returns for a replaced entry is the       *)
(* number of bytes it appended to the sink, and is the size_stored repack  *)
(* records for the entry.                                                  *)
(***************************************************************************)
C9_ReturnedCountIsBytesAppended ==
    (phase \in {"entries", "done"} /\ last.entry # 0 /\ last.replaced) =>
        /\ last.bytes_written = last.data_end - last.start
        /\ new_entries[last.entry].len_compressed = last.bytes_written

(***************************************************************************)
(* C10: the archive repack returns has the input archive's entry IDs and   *)
(* names in the same order, its version and its reported entry count, and  *)
(* the header written to the sink carries that version and entry count.    *)
(***************************************************************************)
C10_IdentityKept ==
    phase = "done" =>
        /\ Len(new_arch.entries) = Len(arch.entries)
        /\ \A i \in 1..Len(arch.entries) :
              /\ new_arch.entries[i].id = arch.entries[i].id
              /\ new_arch.entries[i].name = arch.entries[i].name
        /\ new_arch.names_to_ids = arch.names_to_ids
        /\ new_arch.ver_major = arch.ver_major
        /\ new_arch.ver_minor = arch.ver_minor
        /\ new_arch.reported_entry_count = arch.reported_entry_count
        /\ ReadBytes(Sink, 0, 4) = MPK_SIG
        /\ FromLE(ReadBytes(Sink, 4, 2)) = arch.ver_minor
        /\ FromLE(ReadBytes(Sink, 6, 2)) = arch.ver_major
        /\ FromLE(ReadBytes(Sink, 8, IF arch.is_old_format THEN 4 ELSE 8))
              = arch.reported_entry_count

C10_Witness ==
    /\ phase = "done"
    /\ arch.reported_entry_count > Len(arch.entries)
    /\ Len(arch.entries) >= 2
    /\ arch.ver_major = 2
    /\ \E i \in 1..Len(arch.entries) : IsReplaced(arch.entries[i])

(***************************************************************************)
(* C11: repack writes no alignment padding after the last entry: the       *)
(* output's data ends exactly at the last entry's offset plus its          *)
(* size_stored, while after every entry but the last zero bytes are        *)
(* written up to the next 2048-byte boundary, where the next entry starts. *)
(***************************************************************************)
\* where the data of entry i of the repacked archive ends, by the new table
NewEnd(i) == new_entries[i].offset + new_entries[i].len_compressed

ZeroBetween(f, from, to) == \A q \in DOMAIN f.nz : ~(from <= q /\ q < to)

C11_PaddingOnlyBetweenEntries ==
    phase = "done" =>
        /\ Sink.len = Max(WrittenTableEnd, NewEnd(Len(new_entries)))
        /\ \A i \in 1..(Len(new_entries) - 1) :
              /\ new_entries[i + 1].offset % ALIGNMENT = 0
              /\ NewEnd(i) <= new_entries[i + 1].offset
              /\ new_entries[i + 1].offset <= NewEnd(i) + ALIGNMENT
              /\ new_entries[i + 1].offset >= WrittenTableEnd
                    => ZeroBetween(Sink, Max(NewEnd(i), WrittenTableEnd), new_entries[i + 1].offset)

(***************************************************************************)
(* C12: every entry in an Archive's entries map has offset > 0: build      *)
(* never inserts a decoded record whose offset field is 0, and the Archive *)
(* repack returns satisfies this too.                                      *)
(***************************************************************************)
C12_OffsetsPositive ==
    /\ \A i \in 1..Len(arch.entries) : arch.entries[i].offset > 0
    /\ \A i \in 1..Len(new_arch.entries) : new_arch.entries[i].offset > 0

\* the decoded records of the archive file's entry table, as bytes.rs lays
\* them out, in table order
DiskRecord(k) ==
    LET raw == ReadBytes(src, FIRST_HEADER_OFFSET + (k - 1) * HEADER_LENGTH, HEADER_LENGTH)
    IN  IF arch.is_old_format
        THEN DecodeMpkEntryV1(raw) @@ [cpr_indicator |-> 0]
        ELSE DecodeMpkEntryV2(raw)

\* the ID and the offset field of record k, read where bytes.rs has them
RecordAt(k) == FIRST_HEADER_OFFSET + (k - 1) * HEADER_LENGTH

DiskId(k) == FromLE(ReadBytes(src, RecordAt(k) + (IF arch.is_old_format THEN 0 ELSE 4), 4))

DiskOffset(k) ==
    IF arch.is_old_format THEN FromLE(ReadBytes(src, RecordAt(k) + 4, 4))
    ELSE FromLE(ReadBytes(src, RecordAt(k) + 8, 8))

\* the table positions of the records whose offset field is not 0
NonZeroRecords == {k \in 1..arch.reported_entry_count : DiskOffset(k) # 0}

C12_Witness ==
    /\ phase = "done"
    /\ Len(new_arch.entries) >= 2
    /\ \E k \in 1..arch.reported_entry_count : DiskOffset(k) = 0

(***************************************************************************)
(* C13: after build, the number of entries iter() yields is                *)
(* reported_entry_count minus the number of decoded records whose offset   *)
(* is 0, for every entry table, those whose records repeat an ID included. *)
(* As stated it fails on a table whose records repeat an ID: a record with *)
(* an ID already in the map replaces the earlier entry.  What holds is     *)
(* that iter() yields as many entries as the records with a non-zero       *)
(* offset carry distinct IDs.                                              *)
(***************************************************************************)
Built == phase \notin {"closed", "build_failed"}

C13_IterLength_AnyTable ==
    Built => Len(iter(arch)) = arch.reported_entry_count
                                 - Cardinality((1..arch.reported_entry_count) \ NonZeroRecords)

C13_IterLength ==
    Built => Len(iter(arch)) = Cardinality({DiskId(k) : k \in NonZeroRecords})

C13_Witness ==
    /\ Built
    /\ \E j, k \in NonZeroRecords : j # k /\ DiskId(j) = DiskId(k)
    /\ \E k \in 1..arch.reported_entry_count : DiskOffset(k) = 0
    /\ Len(iter(arch)) >= 1

(***************************************************************************)
(* C14: listing a parsed archive yields, in the order of the on-disk entry *)
(* table, exactly the (id, name, offset, size) tuples of the on-disk       *)
(* records whose offset field is not 0.                                    *)
(* As stated it fails on a table whose records repeat an ID.  It holds of  *)
(* well-formed tables: the records with a non-zero offset carry distinct   *)
(* IDs and every name field holds its NUL.                                 *)
(***************************************************************************)
\* the name a 224-byte name field holds: the bytes before its first NUL
DiskName(field) ==
    LET nul == NulIndex(field)
    IN  IF nul = 0 THEN field ELSE SubSeq(field, 1, nul - 1)

\* the name field of record k holds a NUL: fewer than 224 of its bytes are
\* not 0
FieldHasNul(k) ==
    LET at == RecordAt(k) + (HEADER_LENGTH - NAME_LENGTH)
    IN  Cardinality({x \in DOMAIN src.nz : x >= at /\ x < at + NAME_LENGTH /\ src.nz[x] # 0})
            < NAME_LENGTH

DiskTuple(r) == <<r.id, DiskName(r.name), r.offset, r.len_deflated>>

ListedTuple(e) == <<e.id, e.name, e.offset, e.len_deflated>>

NonZeroOffset(k) == DiskOffset(k) # 0

\* the tuples of the on-disk records with a non-zero offset, in table order
DiskListing ==
    LET kept == SelectSeq([k \in 1..arch.reported_entry_count |-> k], NonZeroOffset)
    IN  [j \in 1..Len(kept) |-> DiskTuple(DiskRecord(kept[j]))]

Listing == [k \in 1..Len(iter(arch)) |-> ListedTuple(iter(arch)[k])]

WellFormedTable ==
    /\ \A j, k \in NonZeroRecords : j # k => DiskId(j) # DiskId(k)
    /\ \A k \in NonZeroRecords : FieldHasNul(k)

BuildAttempted == phase # "closed"

DiskSignature == ReadBytes(src, 0, 4)

DiskMajor == FromLE(ReadBytes(src, 6, 2))

\* C15: whenever the first 4 bytes of the input are not "MPK\0", build fails
\* with a signature error and returns no archive, whatever follows the 4
\* bytes and however short the input is
C15_BadSignatureFails ==
    (BuildAttempted /\ src.len >= 4 /\ DiskSignature # MPK_SIG)
        => (phase = "build_failed" /\ build_err = "signature" /\ arch = NoArchive)

\* C16: whenever the header's major version is neither 1 nor 2, build fails
\* with a version error and builds no archive from the entry table
C16_UnsupportedVersionFails ==
    (BuildAttempted /\ src.len >= FIRST_HEADER_OFFSET /\ DiskSignature = MPK_SIG
        /\ DiskMajor \notin {1, 2})
        => (phase = "build_failed" /\ build_err = "version" /\ arch = NoArchive)


(***************************************************************************)
(* C17: which entries are compressed.                                      *)
(***************************************************************************)
\* what the format says of an on-disk record: the indicator in V2, the two
\* sizes in V1
DiskCompressed(r) ==
    IF arch.is_old_format THEN r.len_compressed # r.len_deflated ELSE r.cpr_indicator # 0

\* C17: an entry of a V2 archive is treated as compressed exactly when its
\* on-disk compression indicator is not 0, an entry of a V1 archive exactly
\* when its stored size differs from its uncompressed size
C17_CompressedByIndicatorOrSizes ==
    (Built /\ WellFormedTable) =>
        \A k \in NonZeroRecords :
            ~TreatedAsUncompressed(get_entry_by_id(arch, DiskId(k)).entry)
                <=> DiskCompressed(DiskRecord(k))


(***************************************************************************)
(* C18: lookup by name.                                                    *)
(***************************************************************************)
\* a name with its ASCII upper-case letters replaced by the lower-case ones
Lower(s) == [j \in 1..Len(s) |-> IF s[j] \in 65..90 THEN s[j] + 32 ELSE s[j]]

SameIgnoringCase(n, m) == Lower(n) = Lower(m)

\* C18: a lookup by name returns the entry whose name equals the name asked
\* for ignoring case, and returns nothing only when no entry has such a name
C18_LookupIgnoresCase ==
    phase = "looked_up" =>
        ((\E k \in 1..Len(arch.entries) : SameIgnoringCase(arch.entries[k].name, found.name))
            => (found.some /\ SameIgnoringCase(found.entry.name, found.name)))


(***************************************************************************)
(* C19: decoding a name.                                                   *)
(***************************************************************************)
\* the entry count and the name field of record k as the file holds them;
\* the field is at byte 32 of the record in V1 and in V2
DiskCount == FromLE(ReadBytes(src, 8, 4))

DiskNameField(k) == ReadBytes(src, RecordAt(k) + (HEADER_LENGTH - NAME_LENGTH), NAME_LENGTH)

BadNameField(k) ==
    NulIndex(DiskNameField(k)) = 0 \/ ~Utf8Valid(DiskName(DiskNameField(k)))

\* C19: a decoded name is the bytes of the record's 224-byte name field
\* before its first NUL; decoding fails when the field has no NUL or these
\* bytes are not UTF-8; nothing beyond the field becomes part of a name
C19_NameWithinField ==
    /\ (BuildAttempted /\ \E k \in 1..DiskCount : BadNameField(k)) => phase = "build_failed"
    /\ Built => \A j \in 1..Len(arch.entries) :
                    /\ Len(arch.entries[j].name) < NAME_LENGTH
                    /\ \E k \in 1..DiskCount :
                           arch.entries[j].name = DiskName(DiskNameField(k))


(***************************************************************************)
(* C20: encoding a name.                                                   *)
(***************************************************************************)
\* repack wrote every entry's data and went on to write the entry table
HeadersReached ==
    /\ phase \in {"done", "repack_failed"}
    /\ arch.entries # <<>>
    /\ Len(new_entries) = Len(arch.entries)

\* the name field of record j of the table repack wrote
WrittenNameField(j) ==
    ReadBytes(Sink, RecordAt(j) + (HEADER_LENGTH - NAME_LENGTH), NAME_LENGTH)

\* C20: encoding a name into a record fails exactly when the name is longer
\* than 224 bytes; a name of at most 224 bytes, 224 included, is written as
\* the 224-byte field of its bytes followed by zero bytes
C20_NameEncodedInField ==
    HeadersReached =>
        /\ phase = "repack_failed"
               <=> \E j \in 1..Len(new_entries) : Len(new_entries[j].name) > NAME_LENGTH
        /\ phase = "done" =>
               \A j \in 1..Len(new_entries) :
                   /\ Len(new_entries[j].name) <= NAME_LENGTH
                   /\ WrittenNameField(j) = new_entries[j].name
                          \o Zeros(NAME_LENGTH - Len(new_entries[j].name))

(***************************************************************************)
(* C21: where the entry table is.                                          *)
(***************************************************************************)
\* C21: the entry table is at byte 0x40 of a V1 archive and at byte 0x44 of
\* a V2 archive: build reads the records from there, and the header rewrite
\* of repack writes them there, one 256-byte record after the other
C21_TableAtVersionOffset ==
    /\ Built => TableOffset(impl, arch.is_old_format)
                    = first_entry_header_offset(arch.is_old_format)
    /\ phase = "done" =>
           writer.pos = first_entry_header_offset(arch.is_old_format)
                            + HEADER_LENGTH * Len(new_entries)

(***************************************************************************)
(* C22: the file at the archive's path.                                    *)
(***************************************************************************)
\* C22: repack writes to its sink only: the file at the original archive's
\* path holds, while repack runs and after it returned with an archive or
\* an error, the bytes it held before
C22_OriginalFileKept == mpk_file = src

(***************************************************************************)
(* C23: the extraction directory.                                          *)
(***************************************************************************)
\* the place of the last dot of a name, 0 when it has none
LastDot(name) ==
    LET dots == {i \in 1..Len(name) : name[i] = 46}
    IN  IF dots = {} THEN 0 ELSE CHOOSE i \in dots : \A j \in dots : j <= i

\* a name has an extension when a dot that is not its first byte is in it
HasExtension(name) == LastDot(name) > 1

ExtractionDirName(name) ==
    IF HasExtension(name) THEN SubSeq(name, 1, LastDot(name) - 1) ELSE name \o DotD

\* C23: the extraction directory of an archive path is, in the archive's
\* directory, the archive's file name without its last extension when the
\* name has one and the file name with ".d" appended when it has none; it
\* is never the archive path itself
C23_ExtractionDir ==
    (ret.fn \in {"archive_dir_name", "archive_output_dir"} /\ file_name(arg.path).some) =>
        /\ ret.ok
        /\ ret.path = join(arg.path.parent, ExtractionDirName(arg.path.file))
        /\ Components(ret.path) # Components(arg.path)

C23_Witness ==
    /\ ret.fn = "archive_dir_name"
    /\ ret.ok
    /\ arg.path.parent # <<>>
    /\ ~HasExtension(arg.path.file)
    /\ LastDot(arg.path.file) = 1

(***************************************************************************)
(* C24: records that repeat an ID.                                         *)
(***************************************************************************)
\* the last record of the table with a non-zero offset and the ID of record k
LastWithId(k) ==
    CHOOSE j \in NonZeroRecords :
        /\ DiskId(j) = DiskId(k)
        /\ \A i \in NonZeroRecords : DiskId(i) = DiskId(k) => i <= j

RepeatedId(k) == \E j \in NonZeroRecords : j # k /\ DiskId(j) = DiskId(k)

StoredFields(r) == <<r.name, r.offset, r.len_compressed, r.len_deflated>>

\* C24: when several records with a non-zero offset carry the same ID, build
\* keeps exactly one entry under that ID, and get_entry_by_id returns the
\* name, the offset and the sizes of the last of these records
C24_LastRecordWins ==
    Built =>
        \A k \in NonZeroRecords :
            RepeatedId(k) =>
                /\ Cardinality({i \in 1..Len(arch.entries) : arch.entries[i].id = DiskId(k)}) = 1
                /\ get_entry_by_id(arch, DiskId(k)).some
                /\ StoredFields(get_entry_by_id(arch, DiskId(k)).entry)
                       = StoredFields([DiskRecord(LastWithId(k))
                                          EXCEPT !.name = DiskName(DiskRecord(LastWithId(k)).name)])

C24_Witness ==
    /\ phase = "open"
    /\ \E k \in NonZeroRecords :
           /\ RepeatedId(k)
           /\ LastWithId(k) # k
           /\ DiskRecord(k).name # DiskRecord(LastWithId(k)).name
    /\ \E k \in 1..arch.reported_entry_count : DiskOffset(k) = 0

(***************************************************************************)
(* C25: the name index and the entries map.                                *)
(***************************************************************************)
\* C25: after build, on every entry table, every name of the name index
\* maps to an ID under which the entries map holds an entry of that name,
\* so a lookup by name never returns an entry of another name
C25_NameIndexConsistent ==
    Built =>
        \A n \in DOMAIN arch.names_to_ids :
            /\ get_entry_by_name(arch, n).some
            /\ get_entry_by_name(arch, n).entry.name = n

(***************************************************************************)
(* C26: parsing what repack wrote.                                         *)
(***************************************************************************)
EntryTuple(e) == <<e.id, e.name, e.offset, e.len_compressed, e.len_deflated>>

EntryTuples(a) == [k \in 1..Len(iter(a)) |-> EntryTuple(iter(a)[k])]

\* build on the bytes repack wrote
Reparsed == build(impl, Sink)

ReportedTableEnd ==
    TableOffset(impl, arch.is_old_format) + HEADER_LENGTH * arch.reported_entry_count

RegionsInOrder ==
    \A i, j \in 1..Len(new_entries) : i < j => NewEnd(i) <= new_entries[j].offset

\* no region with a byte in it has a byte of the entry table
RegionsClearOfTable ==
    \A i \in 1..Len(new_entries) :
        new_entries[i].len_compressed > 0 =>
            \/ NewEnd(i) <= TableOffset(impl, arch.is_old_format)
            \/ new_entries[i].offset >= WrittenTableEnd

C29_EmptyArchiveRepacks ==
    (RepackStarted /\ paths = <<>>) =>
        /\ phase # "repack_failed"
        /\ (phase = "done" /\ arch.entries = <<>>) =>
               /\ new_arch = arch
               /\ Sink.len <= TableOffset(impl, arch.is_old_format)
               /\ SameBelow(Sink, src, TableOffset(impl, arch.is_old_format))

(***************************************************************************)
(* C28: the original archive during the Repack command.                    *)
(***************************************************************************)
\* the file at the archive's path: the original until the rename, none
\* until File::create, then what the writer holds
ArchivePathFile ==
    IF cli_pc = "start" THEN <<mpk_file>>
    ELSE IF cli_pc = "renamed" THEN <<>>
    ELSE <<Sink>>

\* C28: in the Repack command, until repack_entries has returned, a whole
\* copy of the original archive's bytes is on disk, at the archive's path or
\* at the path + ".orig"; the ".orig" file is removed only after
\* repack_entries has returned and only when no_save is set
C28_OriginalSurvives ==
    cli_pc # "none" =>
        /\ phase # "done" => (ArchivePathFile = <<src>> \/ orig_file = <<src>>)
        /\ (cli_pc # "start" /\ orig_file = <<>>) => (phase = "done" /\ no_save)

C28_Witness ==
    /\ cli_pc = "created"
    /\ phase = "entries"
    /\ idx > 1
    /\ Sink # src
    /\ no_save
    /\ orig_file = <<src>>

(***************************************************************************)
(* C30: the length of the alignment padding.                               *)
(***************************************************************************)
PaddingCalls == {"write_alignment_padding", "write_entry_alignment_padding"}

\* the bytes a padding call wrote: how far the writer moved
PaddingWritten == ret.w.pos - arg.n

\* C30: for every n, zero and the multiples of 2048 included, a padding
\* routine given n writes (2048 - n mod 2048) mod 2048 bytes, and the routine
\* computing from a length and the routine computing from a position write
\* the same for the same n
C30_PaddingLength ==
    ret.fn \in PaddingCalls =>
        /\ PaddingWritten = (ALIGNMENT - (arg.n % ALIGNMENT)) % ALIGNMENT
        /\ write_entry_alignment_padding(Seek(NewWriter, arg.n), arg.n)
             = write_alignment_padding(Seek(NewWriter, arg.n), arg.n)

=============================================================================
